---- MODULE Spec2Model ----
(***************************************************************************)
(* Model of the DiffAR training driver (src/learner.py): the learner's     *)
(* TrainerState, the epoch/step control flow of DiffARLearner.train, the   *)
(* checkpoint pools kept on disk by save_to_checkpoint and                 *)
(* save_to_min_checkpoint, restore_from_checkpoint, and the top-level      *)
(* mytrain wrapper with its bare except.                                   *)
(*                                                                         *)
(* One replica process is modelled; which replica it is (coordinating or   *)
(* not, distributed or not) is drawn in Init.  The disk outlives the       *)
(* process: a process can be stopped and mytrain started again in the same *)
(* working directory.                                                      *)
(***************************************************************************)
EXTENDS Integers, Sequences, FiniteSets, TLC

VARIABLES
    params,         \* the resolved configuration and the loaders' lengths
    pc,             \* position of the replica's control flow
    step,           \* self.step
    model,          \* the model parameters (opaque weights)
    optimizer,      \* the optimizer state (Adam's update count)
    epoch,          \* train(): epoch
    min_loss,       \* train(): min_loss
    min_loss_val,   \* train(): min_loss_val
    loss,           \* train(): loss, the value train_epoch returned
    epoch_loss,     \* train_epoch(): running sum of the step losses
    batch,          \* train_epoch(): batches of the loader consumed so far
    epoch_loss_val, \* eval_epoch(): running sum, then the value returned
    n,              \* eval_epoch(): n
    valid_yield,    \* batches the validation loader yields in this pass
    pool,           \* directory of the save in progress
    dirs,           \* the '.pt' entries of each pool's directory, newest first
    pg,             \* torch.distributed process group of this process
    outcome,        \* what mytrain's caller has observed
    error,          \* the exception raised inside the learner, if any
    restored,       \* what restore_from_checkpoint returned
    summary,        \* scalars written to the SummaryWriter by this process
    averages,       \* distrib.average calls of the pass running or just done
    updates,        \* optimizer.step() calls made by this process
    start_step,     \* value of step when the constructor returned
    passes,         \* what the current epoch has done so far, in order
    last_save,      \* TrainerState of the latest save to the general pool
    saves,          \* completed saves to each pool
    written,        \* steps of the snapshots written to each pool, newest first
    runs,           \* mytrain invocations so far in this working directory
    trained,        \* training batches run so far in this working directory
    cap,            \* training batches the directory is followed for
    peer_averages,  \* distrib.average calls of a peer replica in the same pass
    best_train,     \* lowest train_epoch result of the earlier epochs of the run
    best_val,       \* lowest eval_epoch result of the earlier epochs of the run
    epoch_dirs,     \* the directories as they were when the epoch began
    call,           \* the step computing a loss: "train_step" or "valid_loss"
    overlap,        \* data[4] of the batch: the overlap boundary of each row
    l1_in,          \* F.l1_loss(noise, predicted, reduction='none') as computed
    row_loss,       \* get_loss_with_overlap_mask(): the tensor 'loss'
    row,            \* get_loss_with_overlap_mask(): rows the loop has done
    non_overlap,    \* get_loss_with_overlap_mask(): non_overlap
    loss_denoise,   \* train_step() / valid_loss(): loss_denoise
    lpc             \* position inside the loss computation

vars == << params, pc, step, model, optimizer, epoch, min_loss, min_loss_val,
           loss, epoch_loss, batch, epoch_loss_val, n, valid_yield, pool, dirs,
           pg, outcome, error, restored, summary, averages, updates,
           start_step, passes, last_save, saves, written, runs, trained, cap,
           peer_averages, best_train, best_val, epoch_dirs, call, overlap, l1_in,
           row_loss, row, non_overlap, loss_denoise, lpc >>

---------------------------------------------------------------------------
(* Bounds of the model *)

\* training batches run in one working directory, over all mytrain invocations
MaxBatches == 3
\* the same, where one configuration is followed through more saves than a
\* pool retains
MaxSaves == 5
\* mytrain invocations in one working directory
MaxRuns == 2
\* len(valid_ds): batches per validation pass
ValidLen == 1

\* len(train_ds): batches per training epoch
TrainLens == {1, 2}
\* values of params.max_steps, as a set: {} is None (no budget), {m} is m
MaxStepsVals == {{}, {0}, {3}}
\* values of the two cadence parameters
EveryVals == {1, 2}
\* finite values a reduced epoch loss takes: below and above the initial best
LossLevels == {50, 150}

---------------------------------------------------------------------------
(* Program constants *)

\* train(): min_loss = 100
InitMinLoss == 100
\* train(): min_loss_val = 100
InitMinLossVal == 100
\* awk 'NR>4': entries of 'ls -t' that survive a save
Keep == 4

\* os.getcwd(), os.getcwd()/min and os.getcwd()/min_val
Pools == {"cwd", "min", "min_val"}

---------------------------------------------------------------------------
(* Floating point values, as far as the control flow can tell them apart *)

\* the losses are sums of absolute errors: -Inf does not arise
LossKinds == {"fin", "pinf", "nan"}

Fin(v) == [kind |-> "fin", val |-> v]
NonFin(k) == [kind |-> k, val |-> 0]

\* kind of a + b in IEEE arithmetic
FAdd(a, b) ==
    CASE a = "nan" \/ b = "nan" -> "nan"
      [] a = "fin" -> b
      [] b = "fin" -> a
      [] a = b -> a
      [] OTHER -> "nan"

\* a < b in IEEE arithmetic: every comparison with NaN is false
FLess(a, b) ==
    CASE a.kind = "nan" \/ b.kind = "nan" -> FALSE
      [] a.kind = "pinf" -> FALSE
      [] a.kind = "ninf" -> b.kind # "ninf"
      [] b.kind = "pinf" -> TRUE
      [] b.kind = "ninf" -> FALSE
      [] OTHER -> a.val < b.val

\* no loss yet
NoLoss == [kind |-> "none", val |-> 0]

\* the lower of a best-so-far (NoLoss when there is none) and a new value
Lower(best, a) ==
    IF best.kind = "none" \/ FLess(a, best) THEN a ELSE best

\* a plausible slip: torch.isinf in place of torch.isnan
IsInf(k) == k = "pinf"

\* torch.isnan(...).any()
IsNan(k) == k = "nan"

---------------------------------------------------------------------------
(* The checkpoint directories *)

NoData == [step |-> 0, model |-> 0, optimizer |-> 0]
File(s, data) == [link |-> FALSE, id |-> s, data |-> data]
Link(s) == [link |-> TRUE, id |-> s, data |-> NoData]

Min(a, b) == IF a < b THEN a ELSE b

\* a plausible slip: the optimizer state left out of the checkpoint
state_dict_no_optimizer == [step |-> step, model |-> model, optimizer |-> 0]

\* state_dict(): step, model and optimizer of the learner
state_dict == [step |-> step, model |-> model, optimizer |-> optimizer]

\* torch.save(state, '<dir>/weights-<s>.pt'): the file is (re)written and is
\* the newest entry of the directory
TorchSave(d, s, data) ==
    << File(s, data) >> \o SelectSeq(d, LAMBDA e : e.link \/ e.id # s)

\* os.path.islink(link_name)
IsLink(d) == \E k \in 1..Len(d) : d[k].link

\* os.unlink(link_name)
Unlink(d) == SelectSeq(d, LAMBDA e : ~e.link)

\* os.symlink(save_basename, link_name): the link is the newest entry
Symlink(d, s) == << Link(s) >> \o d

\* a plausible slip: 'ls -tr', the oldest entries kept
PruneOldest(d) == SubSeq(d, Len(d) - Min(Len(d), Keep) + 1, Len(d))

\* a plausible slip: awk 'NR>5', four snapshots kept beside the alias
PruneKeepFive(d) == SubSeq(d, 1, Min(Len(d), Keep + 1))

\* rm `ls -t <dir>/*.pt | awk 'NR>4'`
Prune(d) == SubSeq(d, 1, Min(Len(d), Keep))

\* snapshot files of a directory, newest first
Snapshots(d) == SelectSeq(d, LAMBDA e : ~e.link)

\* the files a directory's alias resolves to (none when absent or dangling)
Resolve(d) ==
    { f \in { d[k] : k \in 1..Len(d) } :
        /\ ~f.link
        /\ \E k \in 1..Len(d) : d[k].link /\ d[k].id = f.id }

---------------------------------------------------------------------------
(* The replica process *)

\* (replica_id == 0, replica_count > 1) of the calls mytrain can get
Replicas ==
    { [is_master |-> TRUE,  is_distributed |-> FALSE],
      [is_master |-> TRUE,  is_distributed |-> TRUE],
      [is_master |-> FALSE, is_distributed |-> TRUE] }

\* without a validation set the validation cadence is never read
Configs ==
    { c \in [ replica : Replicas,
              max_steps : MaxStepsVals,
              train_len : TrainLens,
              has_valid : BOOLEAN,
              val_every_n_epochs : EveryVals,
              summery_every_n_epochs : EveryVals ] :
        c.has_valid \/ c.val_every_n_epochs = 1 }

is_master == params.replica.is_master

NoError == [kind |-> "none", step |-> 0]
NoSave == [data |-> NoData, done |-> FALSE]

\* the working directory mytrain is first started in: empty, or holding the
\* checkpoint of an untrained model (step 0) under the alias
InitDisks ==
    { [p \in Pools |-> << >>],
      [p \in Pools |-> IF p = "cwd"
                         THEN << Link(0), File(0, NoData) >>
                         ELSE << >>] }

\* no loss computation is being looked at
NoLossCall ==
    /\ call = "none"
    /\ overlap = << >>
    /\ l1_in = << >>
    /\ row_loss = << >>
    /\ row = 0
    /\ non_overlap = << >>
    /\ loss_denoise = NoLoss
    /\ lpc = "none"

\* memory of a process that has not yet run mytrain
Fresh ==
    /\ pc = "start"
    /\ step = 0
    /\ model = 0
    /\ optimizer = 0
    /\ epoch = 0
    /\ min_loss = Fin(InitMinLoss)
    /\ min_loss_val = Fin(InitMinLossVal)
    /\ loss = Fin(0)
    /\ epoch_loss = "fin"
    /\ batch = 0
    /\ epoch_loss_val = Fin(0)
    /\ n = 0
    /\ valid_yield = 0
    /\ pool = "none"
    /\ pg = "none"
    /\ outcome = "running"
    /\ error = NoError
    /\ restored = FALSE
    /\ summary = 0
    /\ averages = << >>
    /\ updates = 0
    /\ start_step = 0
    /\ passes = << >>
    /\ peer_averages = << >>
    /\ best_train = NoLoss
    /\ best_val = NoLoss

Init ==
    /\ params \in Configs
    /\ Fresh
    /\ dirs \in InitDisks
    /\ epoch_dirs = dirs
    /\ last_save = NoSave
    /\ saves = [p \in Pools |-> 0]
    /\ written = [p \in Pools |-> << >>]
    /\ runs = 1
    /\ NoLossCall
    /\ trained = 0
    /\ cap = MaxBatches

\* a coordinating replica with a validation set, checkpointing every epoch,
\* started in an empty directory and followed for MaxSaves batches
StoreConfigs ==
    { c \in Configs :
        /\ c.replica.is_master
        /\ c.replica.is_distributed
        /\ c.max_steps = {}
        /\ c.train_len = 1
        /\ c.has_valid
        /\ c.summery_every_n_epochs = 1 }

\* budgets a run can reach, and overshoot, within MaxBatches + 1 batches
BudgetSteps == {{2}, {3}}

\* a coordinating replica with a step budget, validating and checkpointing
\* every epoch, started in an empty directory
BudgetConfigs ==
    [ replica : {[is_master |-> TRUE, is_distributed |-> TRUE]},
      max_steps : BudgetSteps,
      train_len : TrainLens,
      has_valid : {TRUE},
      val_every_n_epochs : {1},
      summery_every_n_epochs : {1} ]

InitBudget ==
    /\ params \in BudgetConfigs
    /\ Fresh
    /\ dirs = [p \in Pools |-> << >>]
    /\ epoch_dirs = dirs
    /\ last_save = NoSave
    /\ saves = [p \in Pools |-> 0]
    /\ written = [p \in Pools |-> << >>]
    /\ runs = 1
    /\ NoLossCall
    /\ trained = 0
    /\ cap = MaxBatches + 1

InitStore ==
    /\ params \in StoreConfigs
    /\ Fresh
    /\ dirs = [p \in Pools |-> << >>]
    /\ epoch_dirs = dirs
    /\ last_save = NoSave
    /\ saves = [p \in Pools |-> 0]
    /\ written = [p \in Pools |-> << >>]
    /\ runs = 1
    /\ NoLossCall
    /\ trained = 0
    /\ cap = MaxSaves

\* optimizer.step() on the weights: an opaque, deterministic update
AdamStep(w) == w + 2

\* a plausible slip: self.step is not taken from the checkpoint
load_state_dict_no_step(checkpoint) ==
    /\ model' = checkpoint.model
    /\ optimizer' = checkpoint.optimizer
    /\ step' = 0

\* load_state_dict(checkpoint)
load_state_dict(checkpoint) ==
    /\ model' = checkpoint.model
    /\ optimizer' = checkpoint.optimizer
    /\ step' = checkpoint.step

\* a plausible slip: add_scalar without the is_master test
log_dict_unguarded(count) == summary' = summary + count

\* log_dict(d): add_scalar for every entry of d, on the master only
log_dict(count) == summary' = IF is_master THEN summary + count ELSE summary

\* a plausible slip: the 'epoch != 0' test left out
ShouldValidateAtZero ==
    /\ epoch % params.val_every_n_epochs = 0
    /\ params.has_valid

\* train(): the condition of the validation loop
ShouldValidate ==
    /\ epoch % params.val_every_n_epochs = 0
    /\ epoch # 0
    /\ params.has_valid

\* a plausible slip: '>' in place of '>='
BudgetReachedStrict == \E m \in params.max_steps : step > m

\* a plausible slip: 'if max_steps and ...', which reads 0 as no budget
BudgetReachedTruthy == \E m \in params.max_steps : m # 0 /\ step >= m

\* train(): 'if max_steps is not None and self.step >= max_steps'
BudgetReached == \E m \in params.max_steps : step >= m

\* mytrain up to and including the learner's constructor: process group
\* bring-up, DiffARLearner.__init__ and its restore_from_checkpoint
Construct ==
    /\ pc = "start"
    /\ pg' = IF params.replica.is_distributed THEN "up" ELSE "none"
    /\ LET found == Resolve(dirs["cwd"]) IN
       IF found = {}
       THEN \* FileNotFoundError: training from scratch
            /\ model' = 0
            /\ optimizer' = 0
            /\ step' = 0
            /\ start_step' = 0
            /\ restored' = FALSE
            /\ pc' = "train_epoch"
            /\ UNCHANGED << outcome, error >>
       ELSE \E readable \in BOOLEAN :
            IF readable
            THEN /\ \E f \in found :
                      /\ load_state_dict(f.data)
                      /\ start_step' = step'
                 /\ restored' = TRUE
                 /\ pc' = "train_epoch"
                 /\ UNCHANGED << outcome, error >>
            ELSE \* torch.load raises something else: caught nowhere
                 /\ error' = [kind |-> "load", step |-> 0]
                 /\ outcome' = "load_error"
                 /\ pc' = "exit"
                 /\ UNCHANGED << model, optimizer, step, start_step,
                                 restored >>
    /\ UNCHANGED << params, epoch, min_loss, min_loss_val, loss, epoch_loss,
                    batch, epoch_loss_val, n, valid_yield, pool, dirs,
                    summary, averages, updates, passes, last_save, saves,
                    written, runs, trained, cap, peer_averages, best_train,
                    best_val, epoch_dirs, call, overlap, l1_in, row_loss, row,
                    non_overlap, loss_denoise, lpc >>

\* a plausible slip: the NaN test placed before backward and optimizer.step()
TrainStepCheckFirst ==
    /\ pc = "train_epoch"
    /\ batch < params.train_len
    /\ trained < cap
    /\ trained' = trained + 1
    /\ \E k \in LossKinds :
         /\ epoch_loss' = FAdd(epoch_loss, k)
         /\ IF IsNan(k)
            THEN /\ error' = [kind |-> "nan", step |-> step]
                 /\ pc' = "except"
                 /\ UNCHANGED << step, batch, model, optimizer, updates >>
            ELSE /\ model' = AdamStep(model)
                 /\ optimizer' = optimizer + 1
                 /\ updates' = updates + 1
                 /\ step' = step + 1
                 /\ batch' = batch + 1
                 /\ UNCHANGED << error, pc >>
    /\ UNCHANGED << params, epoch, min_loss, min_loss_val, loss,
                    epoch_loss_val, n, valid_yield, pool, dirs, pg, outcome,
                    restored, summary, averages, start_step, passes,
                    last_save, saves, written, runs, cap, peer_averages,
                    best_train, best_val, epoch_dirs, call, overlap, l1_in,
                    row_loss, row, non_overlap, loss_denoise, lpc >>

\* train_epoch(): one iteration of the loop over the training loader
TrainStep ==
    /\ pc = "train_epoch"
    /\ batch < params.train_len
    /\ trained < cap
    /\ trained' = trained + 1
    /\ \E k \in LossKinds :
         \* train_step(): backward and optimizer.step() come before the test
         /\ model' = AdamStep(model)
         /\ optimizer' = optimizer + 1
         /\ updates' = updates + 1
         /\ epoch_loss' = FAdd(epoch_loss, k)
         /\ IF IsNan(k)
            THEN /\ error' = [kind |-> "nan", step |-> step]
                 /\ pc' = "except"
                 /\ UNCHANGED << step, batch >>
            ELSE /\ step' = step + 1
                 /\ batch' = batch + 1
                 /\ UNCHANGED << error, pc >>
    /\ UNCHANGED << params, epoch, min_loss, min_loss_val, loss,
                    epoch_loss_val, n, valid_yield, pool, dirs, pg, outcome,
                    restored, summary, averages, start_step, passes,
                    last_save, saves, written, runs, cap, peer_averages,
                    best_train, best_val, epoch_dirs, call, overlap, l1_in,
                    row_loss, row, non_overlap, loss_denoise, lpc >>

\* train_epoch(): after the loop: local mean, cross-replica averages, return
TrainEpochEnd ==
    /\ pc = "train_epoch"
    /\ batch = params.train_len
    /\ IF epoch_loss = "fin"
       THEN \E v \in LossLevels : loss' = Fin(v)
       ELSE loss' = NonFin(epoch_loss)
    /\ \E both_positive \in BOOLEAN :
         \* 'if epoch_loss_denoise > 0 and epoch_loss_spec > 0'
         averages' = << "train/loss" >> \o
                     (IF both_positive THEN << "denoise", "spec" >> ELSE << >>)
    /\ \E peer_positive \in BOOLEAN :
         \* the same test in a peer replica, on the peer's own sums
         peer_averages' =
            IF params.replica.is_distributed
            THEN << "train/loss" >> \o
                 (IF peer_positive THEN << "denoise", "spec" >> ELSE << >>)
            ELSE averages'
    /\ passes' = Append(passes, "train")
    /\ pc' = "log_train"
    /\ UNCHANGED << params, step, model, optimizer, epoch, min_loss,
                    min_loss_val, epoch_loss, batch, epoch_loss_val, n,
                    valid_yield, pool, dirs, pg, outcome, error, restored,
                    summary, updates, start_step, last_save, saves, written,
                    runs, trained, cap, best_train, best_val, epoch_dirs,
                    call, overlap, l1_in, row_loss, row, non_overlap,
                    loss_denoise, lpc >>

\* train(): self.log_dict({"train/loss": ..., "train/grad_norm": ...})
LogTrain ==
    /\ pc = "log_train"
    /\ log_dict(2)
    /\ averages' = << >>
    /\ peer_averages' = << >>
    /\ pc' = "val_check"
    /\ UNCHANGED << params, step, model, optimizer, epoch, min_loss,
                    min_loss_val, loss, epoch_loss, batch, epoch_loss_val, n,
                    valid_yield, pool, dirs, pg, outcome, error, restored,
                    updates, start_step, passes, last_save, saves, written,
                    runs, trained, cap, best_train, best_val, epoch_dirs,
                    call, overlap, l1_in, row_loss, row, non_overlap,
                    loss_denoise, lpc >>

\* train(): 'if epoch % val_every_n_epochs == 0 and epoch != 0 and
\* self.valid_ds is not None', and the entry of eval_epoch
ValCheck ==
    /\ pc = "val_check"
    /\ IF ShouldValidate
       THEN /\ pc' = "eval_epoch"
            /\ passes' = Append(passes, "valid")
            /\ n' = 0
            /\ epoch_loss_val' = Fin(0)
            /\ \E y \in {ValidLen - 1, ValidLen} : valid_yield' = y
       ELSE /\ pc' = "ckpt_check"
            /\ UNCHANGED << passes, n, epoch_loss_val, valid_yield >>
    /\ UNCHANGED << params, step, model, optimizer, epoch, min_loss,
                    min_loss_val, loss, epoch_loss, batch, pool, dirs, pg,
                    outcome, error, restored, summary, averages, updates,
                    start_step, last_save, saves, written, runs, trained, cap,
                    peer_averages, best_train, best_val, epoch_dirs, call,
                    overlap, l1_in, row_loss, row, non_overlap, loss_denoise,
                    lpc >>

\* eval_epoch(): one iteration of the loop over the validation loader
EvalStep ==
    /\ pc = "eval_epoch"
    /\ n < valid_yield
    /\ \E k \in LossKinds :
         /\ epoch_loss_val' = NonFin(FAdd(epoch_loss_val.kind, k))
         /\ IF IsNan(FAdd(epoch_loss_val.kind, k))
            THEN /\ error' = [kind |-> "nan", step |-> step]
                 /\ pc' = "except"
                 /\ UNCHANGED n
            ELSE /\ n' = n + 1
                 /\ UNCHANGED << error, pc >>
    /\ UNCHANGED << params, step, model, optimizer, epoch, min_loss,
                    min_loss_val, loss, epoch_loss, batch, valid_yield, pool,
                    dirs, pg, outcome, restored, summary, averages, updates,
                    start_step, passes, last_save, saves, written, runs,
                    trained, cap, peer_averages, best_train, best_val,
                    epoch_dirs, call, overlap, l1_in, row_loss, row,
                    non_overlap, loss_denoise, lpc >>

\* eval_epoch(): after the loop: assert, local mean, cross-replica average
EvalEpochEnd ==
    /\ pc = "eval_epoch"
    /\ n = valid_yield
    /\ IF n # ValidLen
       THEN /\ error' = [kind |-> "assert", step |-> step]
            /\ pc' = "except"
            /\ UNCHANGED << epoch_loss_val, averages, peer_averages >>
       ELSE /\ IF epoch_loss_val.kind = "fin"
               THEN \E v \in LossLevels : epoch_loss_val' = Fin(v)
               ELSE UNCHANGED epoch_loss_val
            /\ averages' = << "valid/loss" >>
            /\ peer_averages' = << "valid/loss" >>
            /\ pc' = "log_val"
            /\ UNCHANGED error
    /\ UNCHANGED << params, step, model, optimizer, epoch, min_loss,
                    min_loss_val, loss, epoch_loss, batch, n, valid_yield,
                    pool, dirs, pg, outcome, restored, summary, updates,
                    start_step, passes, last_save, saves, written, runs,
                    trained, cap, best_train, best_val, epoch_dirs, call,
                    overlap, l1_in, row_loss, row, non_overlap, loss_denoise,
                    lpc >>

\* train(): self.log_dict({"valid/loss": epoch_loss_val})
LogVal ==
    /\ pc = "log_val"
    /\ log_dict(1)
    /\ averages' = << >>
    /\ peer_averages' = << >>
    /\ pc' = "val_best"
    /\ UNCHANGED << params, step, model, optimizer, epoch, min_loss,
                    min_loss_val, loss, epoch_loss, batch, epoch_loss_val, n,
                    valid_yield, pool, dirs, pg, outcome, error, restored,
                    updates, start_step, passes, last_save, saves, written,
                    runs, trained, cap, best_train, best_val, epoch_dirs,
                    call, overlap, l1_in, row_loss, row, non_overlap,
                    loss_denoise, lpc >>

\* train(): 'if self.is_master and epoch_loss_val < min_loss_val'
ValBest ==
    /\ pc = "val_best"
    /\ IF is_master /\ FLess(epoch_loss_val, min_loss_val)
       THEN /\ pool' = "min_val"
            /\ passes' = Append(passes, "min_val")
            /\ pc' = "save"
       ELSE /\ pc' = "ckpt_check"
            /\ UNCHANGED << pool, passes >>
    /\ UNCHANGED << params, step, model, optimizer, epoch, min_loss,
                    min_loss_val, loss, epoch_loss, batch, epoch_loss_val, n,
                    valid_yield, dirs, pg, outcome, error, restored, summary,
                    averages, updates, start_step, last_save, saves, written,
                    runs, trained, cap, peer_averages, best_train, best_val,
                    epoch_dirs, call, overlap, l1_in, row_loss, row,
                    non_overlap, loss_denoise, lpc >>

\* train(): 'if self.is_master and epoch % summery_every_n_epochs == 0'
CkptCheck ==
    /\ pc = "ckpt_check"
    /\ IF is_master /\ epoch % params.summery_every_n_epochs = 0
       THEN /\ pool' = "cwd"
            /\ passes' = Append(passes, "ckpt")
            /\ pc' = "save"
       ELSE /\ pc' = "budget"
            /\ UNCHANGED << pool, passes >>
    /\ UNCHANGED << params, step, model, optimizer, epoch, min_loss,
                    min_loss_val, loss, epoch_loss, batch, epoch_loss_val, n,
                    valid_yield, dirs, pg, outcome, error, restored, summary,
                    averages, updates, start_step, last_save, saves, written,
                    runs, trained, cap, peer_averages, best_train, best_val,
                    epoch_dirs, call, overlap, l1_in, row_loss, row,
                    non_overlap, loss_denoise, lpc >>

\* save_to_checkpoint / save_to_min_checkpoint: mkdir -p and torch.save of
\* state_dict() to '<pool>/weights-<step>.pt'
SaveWrite ==
    /\ pc = "save"
    /\ dirs' = [dirs EXCEPT ![pool] = TorchSave(@, step, state_dict)]
    /\ written' = [written EXCEPT ![pool] =
                     << step >> \o SelectSeq(@, LAMBDA s : s # step)]
    /\ last_save' =
         IF pool = "cwd"
         THEN [data |-> [step |-> step, model |-> model,
                         optimizer |-> optimizer],
               done |-> FALSE]
         ELSE last_save
    /\ pc' = "save_unlink"
    /\ UNCHANGED << params, step, model, optimizer, epoch, min_loss,
                    min_loss_val, loss, epoch_loss, batch, epoch_loss_val, n,
                    valid_yield, pool, pg, outcome, error, restored, summary,
                    averages, updates, start_step, passes, saves, runs,
                    trained, cap, peer_averages, best_train, best_val,
                    epoch_dirs, call, overlap, l1_in, row_loss, row,
                    non_overlap, loss_denoise, lpc >>

\* 'if os.path.islink(link_name): os.unlink(link_name)'
SaveUnlink ==
    /\ pc = "save_unlink"
    /\ dirs' = [dirs EXCEPT ![pool] = IF IsLink(@) THEN Unlink(@) ELSE @]
    /\ pc' = "save_symlink"
    /\ UNCHANGED << params, step, model, optimizer, epoch, min_loss,
                    min_loss_val, loss, epoch_loss, batch, epoch_loss_val, n,
                    valid_yield, pool, pg, outcome, error, restored, summary,
                    averages, updates, start_step, passes, last_save, saves,
                    written, runs, trained, cap, peer_averages, best_train,
                    best_val, epoch_dirs, call, overlap, l1_in, row_loss, row,
                    non_overlap, loss_denoise, lpc >>

\* os.symlink(save_basename, link_name)
SaveSymlink ==
    /\ pc = "save_symlink"
    /\ dirs' = [dirs EXCEPT ![pool] = Symlink(@, step)]
    /\ pc' = "save_prune"
    /\ UNCHANGED << params, step, model, optimizer, epoch, min_loss,
                    min_loss_val, loss, epoch_loss, batch, epoch_loss_val, n,
                    valid_yield, pool, pg, outcome, error, restored, summary,
                    averages, updates, start_step, passes, last_save, saves,
                    written, runs, trained, cap, peer_averages, best_train,
                    best_val, epoch_dirs, call, overlap, l1_in, row_loss, row,
                    non_overlap, loss_denoise, lpc >>

\* os.system("rm `ls -t ...`"), after which the save returns
SavePrune ==
    /\ pc = "save_prune"
    /\ dirs' = [dirs EXCEPT ![pool] = Prune(@)]
    /\ saves' = [saves EXCEPT ![pool] = @ + 1]
    /\ last_save' = IF pool = "cwd"
                    THEN [last_save EXCEPT !.done = TRUE]
                    ELSE last_save
    /\ pc' = "save_return"
    /\ UNCHANGED << params, step, model, optimizer, epoch, min_loss,
                    min_loss_val, loss, epoch_loss, batch, epoch_loss_val, n,
                    valid_yield, pool, pg, outcome, error, restored, summary,
                    averages, updates, start_step, passes, written, runs,
                    trained, cap, peer_averages, best_train, best_val,
                    epoch_dirs, call, overlap, l1_in, row_loss, row,
                    non_overlap, loss_denoise, lpc >>

\* train(): the statements that follow each of the three save calls
SaveReturn ==
    /\ pc = "save_return"
    /\ pool' = "none"
    /\ CASE pool = "min_val" ->
              \* min_loss_val = epoch_loss_val
              /\ min_loss_val' = epoch_loss_val
              /\ pc' = "ckpt_check"
              /\ UNCHANGED min_loss
         [] pool = "cwd" ->
              /\ pc' = "min_check"
              /\ UNCHANGED << min_loss, min_loss_val >>
         [] pool = "min" ->
              \* min_loss = loss
              /\ min_loss' = loss
              /\ pc' = "budget"
              /\ UNCHANGED min_loss_val
    /\ UNCHANGED << params, step, model, optimizer, epoch, loss, epoch_loss,
                    batch, epoch_loss_val, n, valid_yield, dirs, pg, outcome,
                    error, restored, summary, averages, updates, start_step,
                    passes, last_save, saves, written, runs, trained, cap,
                    peer_averages, best_train, best_val, epoch_dirs, call,
                    overlap, l1_in, row_loss, row, non_overlap, loss_denoise,
                    lpc >>

\* train(): 'if loss < min_loss' after the periodic save
MinCheck ==
    /\ pc = "min_check"
    /\ IF FLess(loss, min_loss)
       THEN /\ pool' = "min"
            /\ passes' = Append(passes, "min")
            /\ pc' = "save"
       ELSE /\ pc' = "budget"
            /\ UNCHANGED << pool, passes >>
    /\ UNCHANGED << params, step, model, optimizer, epoch, min_loss,
                    min_loss_val, loss, epoch_loss, batch, epoch_loss_val, n,
                    valid_yield, dirs, pg, outcome, error, restored, summary,
                    averages, updates, start_step, last_save, saves, written,
                    runs, trained, cap, peer_averages, best_train, best_val,
                    epoch_dirs, call, overlap, l1_in, row_loss, row,
                    non_overlap, loss_denoise, lpc >>

\* train(): the epoch-end check: return, or 'epoch += 1' and the next
\* train_epoch begins
BudgetCheck ==
    /\ pc = "budget"
    /\ IF BudgetReached
       THEN /\ outcome' = "returned"
            /\ pc' = "exit"
            /\ UNCHANGED << epoch, batch, epoch_loss, passes, best_train,
                            best_val, epoch_dirs >>
       ELSE /\ epoch' = epoch + 1
            /\ batch' = 0
            /\ epoch_loss' = "fin"
            /\ passes' = << >>
            /\ best_train' = Lower(best_train, loss)
            /\ best_val' = IF \E k \in 1..Len(passes) : passes[k] = "valid"
                           THEN Lower(best_val, epoch_loss_val)
                           ELSE best_val
            /\ epoch_dirs' = dirs
            /\ pc' = "train_epoch"
            /\ UNCHANGED outcome
    /\ UNCHANGED << params, step, model, optimizer, min_loss, min_loss_val,
                    loss, epoch_loss_val, n, valid_yield, pool, dirs, pg,
                    error, restored, summary, averages, updates, start_step,
                    last_save, saves, written, runs, trained, cap,
                    peer_averages, call, overlap, l1_in, row_loss, row,
                    non_overlap, loss_denoise, lpc >>

\* a plausible slip: the handler writes an emergency checkpoint before the
\* teardown
ExceptSaving ==
    /\ pc = "except"
    /\ dirs' = [dirs EXCEPT !["cwd"] = TorchSave(@, step, state_dict)]
    /\ IF pg = "up"
       THEN /\ pg' = "destroyed"
            /\ outcome' = "returned"
       ELSE /\ outcome' = "teardown_error"
            /\ UNCHANGED pg
    /\ pc' = "exit"
    /\ UNCHANGED << params, step, model, optimizer, epoch, min_loss,
                    min_loss_val, loss, epoch_loss, batch, epoch_loss_val, n,
                    valid_yield, pool, error, restored, summary, averages,
                    updates, start_step, passes, last_save, saves, written,
                    runs, trained, cap, peer_averages, best_train, best_val,
                    epoch_dirs, call, overlap, l1_in, row_loss, row,
                    non_overlap, loss_denoise, lpc >>

\* mytrain(): 'except:' print and torch.distributed.destroy_process_group().
\* With a process group the teardown succeeds and mytrain falls off its end;
\* without one destroy_process_group itself raises.
Except ==
    /\ pc = "except"
    /\ IF pg = "up"
       THEN /\ pg' = "destroyed"
            /\ outcome' = "returned"
       ELSE /\ outcome' = "teardown_error"
            /\ UNCHANGED pg
    /\ pc' = "exit"
    /\ UNCHANGED << params, step, model, optimizer, epoch, min_loss,
                    min_loss_val, loss, epoch_loss, batch, epoch_loss_val, n,
                    valid_yield, pool, dirs, error, restored, summary,
                    averages, updates, start_step, passes, last_save, saves,
                    written, runs, trained, cap, peer_averages, best_train,
                    best_val, epoch_dirs, call, overlap, l1_in, row_loss, row,
                    non_overlap, loss_denoise, lpc >>

\* the process is stopped from outside while it is inside a save: after the
\* write, after the unlink, after the symlink or after the pruning
Stop ==
    /\ pc \in {"save_unlink", "save_symlink", "save_prune", "save_return"}
    /\ outcome' = "stopped"
    /\ pc' = "exit"
    /\ UNCHANGED << params, step, model, optimizer, epoch, min_loss,
                    min_loss_val, loss, epoch_loss, batch, epoch_loss_val, n,
                    valid_yield, pool, dirs, pg, error, restored, summary,
                    averages, updates, start_step, passes, last_save, saves,
                    written, runs, trained, cap, peer_averages, best_train,
                    best_val, epoch_dirs, call, overlap, l1_in, row_loss, row,
                    non_overlap, loss_denoise, lpc >>

\* mytrain is started again, in a new process, in the same working directory
Restart ==
    /\ pc = "exit"
    /\ runs < MaxRuns
    /\ runs' = runs + 1
    /\ pc' = "start"
    /\ step' = 0
    /\ model' = 0
    /\ optimizer' = 0
    /\ epoch' = 0
    /\ min_loss' = Fin(InitMinLoss)
    /\ min_loss_val' = Fin(InitMinLossVal)
    /\ loss' = Fin(0)
    /\ epoch_loss' = "fin"
    /\ batch' = 0
    /\ epoch_loss_val' = Fin(0)
    /\ n' = 0
    /\ valid_yield' = 0
    /\ pool' = "none"
    /\ pg' = "none"
    /\ outcome' = "running"
    /\ error' = NoError
    /\ restored' = FALSE
    /\ summary' = 0
    /\ averages' = << >>
    /\ updates' = 0
    /\ start_step' = 0
    /\ passes' = << >>
    /\ peer_averages' = << >>
    /\ best_train' = NoLoss
    /\ best_val' = NoLoss
    /\ epoch_dirs' = dirs
    /\ UNCHANGED << params, dirs, last_save, saves, written, trained, cap,
                    call, overlap, l1_in, row_loss, row, non_overlap,
                    loss_denoise, lpc >>

Next ==
    \/ Construct
    \/ TrainStep
    \/ TrainEpochEnd
    \/ LogTrain
    \/ ValCheck
    \/ EvalStep
    \/ EvalEpochEnd
    \/ LogVal
    \/ ValBest
    \/ CkptCheck
    \/ SaveWrite
    \/ SaveUnlink
    \/ SaveSymlink
    \/ SavePrune
    \/ SaveReturn
    \/ MinCheck
    \/ BudgetCheck
    \/ Except
    \/ Stop
    \/ Restart

Spec == Init /\ [][Next]_vars

SpecStore == InitStore /\ [][Next]_vars

\* a process that is not stopped keeps executing: the next statement of the
\* sequential program is eventually taken
SpecBudget == InitBudget /\ [][Next]_vars /\ WF_vars(Next)

---------------------------------------------------------------------------
(* The training loss: train_step / valid_loss and
   get_loss_with_overlap_mask, on one batch *)

\* T: samples per row (window length) of the batches looked at
MaxWin == 3
\* largest params.mask_loss_using_overlap looked at (-1 disables the mask)
MaxMargin == 2
\* params.batch_size_train and params.batch_size_validation
BatchSizes == {1, 2}
\* absolute errors |noise - predicted| of one sample
ErrLevels == {1, 2}

Max(a, b) == IF a > b THEN a ELSE b

RECURSIVE SumSeq(_)
SumSeq(s) == IF s = << >> THEN 0 ELSE Head(s) + SumSeq(Tail(s))

RECURSIVE ProdSeq(_)
ProdSeq(s) == IF s = << >> THEN 1 ELSE Head(s) * ProdSeq(Tail(s))

\* the sum of all elements of a tensor of N rows
SumAll(t) == SumSeq([r \in 1..Len(t) |-> SumSeq(t[r])])

\* the configurations of the loss and of the two loaders
LossConfigs ==
    [ mask_loss_using_overlap : -1..MaxMargin,
      batch_size_train : BatchSizes,
      batch_size_validation : BatchSizes ]

\* rows of a batch: both loaders are built with drop_last=True
BatchRows(c, caller) ==
    IF caller = "train_step" THEN c.batch_size_train
                             ELSE c.batch_size_validation

\* a batch of N rows of T samples arrives at train_step or at valid_loss
InitBatch ==
    /\ params \in LossConfigs
    /\ call \in {"train_step", "valid_loss"}
    /\ \E T \in 1..MaxWin :
         /\ overlap \in [1..BatchRows(params, call) -> 0..T]
         /\ l1_in \in [1..BatchRows(params, call) -> [1..T -> ErrLevels]]

\* the batch of the end-to-end scenario: two rows of 100 samples with
\* overlap [50, 0] and a margin of 10, every absolute error being 1
InitScenario ==
    /\ params = [mask_loss_using_overlap |-> 10, batch_size_train |-> 2,
                 batch_size_validation |-> 2]
    /\ call = "train_step"
    /\ overlap = << 50, 0 >>
    /\ l1_in = [r \in 1..2 |-> [j \in 1..100 |-> 1]]

InitLoss ==
    /\ InitBatch \/ InitScenario
    /\ row_loss = l1_in
    /\ row = 0
    /\ non_overlap = << >>
    /\ loss_denoise = NoLoss
    /\ lpc = "call"
    /\ Fresh
    /\ dirs = [p \in Pools |-> << >>]
    /\ epoch_dirs = dirs
    /\ last_save = NoSave
    /\ saves = [p \in Pools |-> 0]
    /\ written = [p \in Pools |-> << >>]
    /\ runs = 1
    /\ trained = 0
    /\ cap = 0

\* a rational n/d, not reduced
Rat(nn, d) == [kind |-> "fin", num |-> nn, den |-> d]

\* a plausible slip: 'loss[row, :k + 1]'
MaskedRowInclusive(l, k) == [j \in 1..Len(l) |-> IF j <= k + 1 THEN 0 ELSE l[j]]

\* 'loss[row, :k].zero_()': samples 0..k-1 of the row are set to 0
MaskedRow(l, k) == [j \in 1..Len(l) |-> IF j <= k THEN 0 ELSE l[j]]

\* 'non_overlap = win_len - overlap + samples_before', for one row
NonOverlap(win_len, o, samples_before) == win_len - o + samples_before

\* a plausible slip: the division by the number of rows of the batch given
BatchDivisorRows(c, rows) == rows

\* 'loss / ... / self.params.batch_size_train'
BatchDivisor(c, rows) == c.batch_size_train

\* 'loss / non_overlap.unsqueeze(1) / batch_size' and 'loss.sum()': each
\* element x of row r becomes x / d[r] / bs; x / 0 is NaN for x = 0 and +Inf
\* for x > 0, and the sum is NaN as soon as one element is
Reduced(t, d, bs) ==
    LET R == 1..Len(t)
        zero == { r \in R : d[r] = 0 }
    IN  IF \E r \in zero : \E j \in 1..Len(t[r]) : t[r][j] = 0
        THEN NonFin("nan")
        ELSE IF zero # {}
        THEN NonFin("pinf")
        ELSE Rat(SumSeq([r \in R |->
                     SumSeq(t[r]) * ProdSeq([q \in R |-> IF q = r THEN 1 ELSE d[q]])]),
                 bs * ProdSeq(d))

\* F.l1_loss(noise, predicted): the mean over all N * T elements
MeanL1(t) == Rat(SumAll(t), Len(t) * Len(t[1]))

\* train_epoch / eval_epoch: 'if self.params.mask_loss_using_overlap >= 0:
\* overlap = ... else: overlap = None', then train_step / valid_loss:
\* 'if overlap is None: F.l1_loss(...) else: get_loss_with_overlap_mask(...)'
\* up to the loop of get_loss_with_overlap_mask (its two asserts hold)
LossCall ==
    /\ lpc = "call"
    /\ IF params.mask_loss_using_overlap >= 0
       THEN /\ lpc' = "mask"
            /\ UNCHANGED loss_denoise
       ELSE /\ loss_denoise' = MeanL1(l1_in)
            /\ lpc' = "done"
    /\ UNCHANGED << params, pc, step, model, optimizer, epoch, min_loss,
                    min_loss_val, loss, epoch_loss, batch, epoch_loss_val, n,
                    valid_yield, pool, dirs, pg, outcome, error, restored,
                    summary, averages, updates, start_step, passes, last_save,
                    saves, written, runs, trained, cap, peer_averages,
                    best_train, best_val, epoch_dirs, call, overlap, l1_in,
                    row_loss, row, non_overlap >>

\* get_loss_with_overlap_mask(): one iteration of 'for row, k in
\* enumerate(overlap)': 'k = max(0, k - samples_before)' and the zeroing
MaskRow ==
    /\ lpc = "mask"
    /\ row < Len(overlap)
    /\ LET k == Max(0, overlap[row + 1] - params.mask_loss_using_overlap)
       IN  row_loss' = [row_loss EXCEPT ![row + 1] = MaskedRow(@, k)]
    /\ row' = row + 1
    /\ UNCHANGED << params, pc, step, model, optimizer, epoch, min_loss,
                    min_loss_val, loss, epoch_loss, batch, epoch_loss_val, n,
                    valid_yield, pool, dirs, pg, outcome, error, restored,
                    summary, averages, updates, start_step, passes, last_save,
                    saves, written, runs, trained, cap, peer_averages,
                    best_train, best_val, epoch_dirs, call, overlap, l1_in,
                    non_overlap, loss_denoise, lpc >>

\* get_loss_with_overlap_mask(): after the loop: win_len, non_overlap, the
\* two divisions, the sum and the return to train_step / valid_loss
Reduce ==
    /\ lpc = "mask"
    /\ row = Len(overlap)
    /\ non_overlap' =
         [r \in 1..Len(overlap) |->
            NonOverlap(Len(row_loss[1]), overlap[r],
                       params.mask_loss_using_overlap)]
    /\ loss_denoise' =
         Reduced(row_loss, non_overlap',
                 BatchDivisor(params, Len(row_loss)))
    /\ lpc' = "done"
    /\ UNCHANGED << params, pc, step, model, optimizer, epoch, min_loss,
                    min_loss_val, loss, epoch_loss, batch, epoch_loss_val, n,
                    valid_yield, pool, dirs, pg, outcome, error, restored,
                    summary, averages, updates, start_step, passes, last_save,
                    saves, written, runs, trained, cap, peer_averages,
                    best_train, best_val, epoch_dirs, call, overlap, l1_in,
                    row_loss, row >>

NextLoss ==
    \/ LossCall
    \/ MaskRow
    \/ Reduce

SpecLoss == InitLoss /\ [][NextLoss]_vars

---------------------------------------------------------------------------
(* The claims *)

\* train() has returned normally (not through mytrain's except)
ReturnedNormally == pc = "exit" /\ outcome = "returned" /\ error = NoError

\* the process stands right after its constructor, before any training
JustConstructed == pc = "train_epoch" /\ epoch = 0 /\ updates = 0

\* the case of C1: budget 0 and a restored checkpoint of step 0
ZeroBudgetFromZero ==
    params.max_steps = {0} /\ restored /\ start_step = 0

\* C1 as stated: with max_steps = 0 after restoring a checkpoint of step 0,
\* train returns with no training step performed and step still 0.
C1_NoStepOnZeroBudget ==
    (ZeroBudgetFromZero /\ ReturnedNormally) => (step = 0 /\ updates = 0)

\* C1 amended: with max_steps = 0 after restoring a checkpoint of step 0,
\* train never leaves epoch 0, and when it returns at that epoch's end check
\* it has trained on every batch of the training set exactly once: step
\* and the number of optimizer updates both equal the number of batches.
C1_OneEpochOnZeroBudget ==
    ZeroBudgetFromZero =>
        /\ epoch = 0
        /\ ReturnedNormally =>
             (step = params.train_len /\ updates = params.train_len)

\* C1 witness: such a run has returned, and has trained
C1_Witness ==
    ZeroBudgetFromZero /\ ReturnedNormally /\ step = params.train_len

\* a non-finite loss has entered a running sum of the current epoch
NonFiniteSeen == epoch_loss # "fin" \/ epoch_loss_val.kind # "fin"

\* a NaN loss has entered a running sum of the current epoch
NanSeen == epoch_loss = "nan" \/ epoch_loss_val.kind = "nan"

\* the run has left the training loop through an exception
Fatal == pc \in {"except", "exit"} /\ error.kind # "none"

\* C2 as stated: whenever a training or validation step's loss is non-finite
\* (NaN or infinite), the run is terminated fatally at that step.
C2_NonFiniteIsFatal == NonFiniteSeen => Fatal

\* C2 amended: whenever a training step's loss is NaN, or a validation
\* step makes the running validation sum NaN, the run is terminated fatally
\* at that step, and from then on this run performs no training step, no
\* validation step, no metric reduction, no summary write and no checkpoint
\* save.  (An infinite loss is not detected.)
C2_NanIsFatal ==
    /\ [](NanSeen => (Fatal /\ error.kind = "nan"))
    /\ [][(error.kind = "nan" /\ pc' # "start") =>
            UNCHANGED << step, updates, model, optimizer, batch, n, epoch,
                         averages, summary, dirs, saves, written, passes >>]_vars

\* C2 witness: a NaN loss ended a run that had checkpoints to go on from
C2_Witness ==
    pc = "exit" /\ error.kind = "nan" /\ NanSeen /\ saves["cwd"] > 0

\* C3 as stated: after a fatal error raised inside learner.train, mytrain has
\* torn the process group down and its caller sees that original error; in
\* particular mytrain has not returned normally.
C3_FatalSurfacesOriginal ==
    (pc = "exit" /\ error.kind \in {"nan", "assert"}) =>
        (outcome = "original_error" /\ pg # "up")

\* C4: step is set at most once, by the constructor's restore (to the value
\* stored in the checkpoint the alias resolves to, else it stays 0); after
\* that every operation leaves it unchanged or increments it by exactly 1,
\* and only a completed training batch increments it.
C4_StepOnlyIncrements ==
    [][/\ (pc = "start" /\ pc' # "start") =>
            /\ step' = start_step'
            /\ IF restored'
               THEN \E f \in Resolve(dirs["cwd"]) : step' = f.data.step
               ELSE step' = 0
       /\ (pc # "start" /\ pc' # "start") =>
            \/ step' = step
            \/ /\ step' = step + 1
               /\ pc = "train_epoch"
               /\ batch' = batch + 1
               /\ updates' = updates + 1]_vars

\* C4 witness: a run restored a trained checkpoint and trained on from it
C4_Witness == restored /\ start_step > 0 /\ step > start_step

\* a save to pool p has just completed (its pruning is done)
SaveCompleted(p) == pc = "save_return" /\ pool = p

\* the steps of the snapshot files of pool p, newest first
SnapshotSteps(p) ==
    [k \in 1..Len(Snapshots(dirs[p])) |-> Snapshots(dirs[p])[k].id]

\* the alias of pool p exists, alone, and resolves to the snapshot of step s
AliasAt(p, s) ==
    /\ Len(SelectSeq(dirs[p], LAMBDA e : e.link)) = 1
    /\ \E f \in Resolve(dirs[p]) : Resolve(dirs[p]) = {f} /\ f.id = s

\* C5 as stated: after more than 4 completed saves to a pool the directory
\* holds exactly 4 snapshot files plus the alias, the 4 most recently saved,
\* and the alias resolves to the most recently saved one.
C5_KeepsFourSnapshots ==
    \A p \in Pools :
        (SaveCompleted(p) /\ saves[p] > 4) =>
            /\ SnapshotSteps(p) = SubSeq(written[p], 1, 4)
            /\ AliasAt(p, written[p][1])

\* C5 amended: after every completed save to a pool the directory holds the
\* alias and the most recently saved snapshot files, at most 3 of them (the
\* alias is one of the 4 entries the pruning keeps), and the alias resolves
\* to the most recently saved one; after more than 4 completed saves there
\* are exactly 3 snapshot files plus the alias.
C5_KeepsThreeSnapshots ==
    \A p \in Pools :
        SaveCompleted(p) =>
            /\ SnapshotSteps(p) =
                 SubSeq(written[p], 1, Min(3, Len(written[p])))
            /\ AliasAt(p, written[p][1])
            /\ written[p][1] = step
            /\ saves[p] > 4 => Len(dirs[p]) = 4 /\ Len(SnapshotSteps(p)) = 3

\* C5 witness: a fifth save to the working directory has completed
C5_Witness ==
    /\ SaveCompleted("cwd")
    /\ saves["cwd"] > 4
    /\ Len(written["cwd"]) > 4
    /\ Len(SnapshotSteps("cwd")) = 3

\* C6 as stated: once a first save to a pool is complete, in every later
\* state (inside a later save and after a stop at any point of it) the
\* pool's alias exists, is not dangling and resolves to the most recently
\* written snapshot file of the pool.
C6_AliasAlwaysLatest ==
    \A p \in Pools : saves[p] >= 1 => AliasAt(p, written[p][1])

\* C7 as stated: the constructor ends in one of three ways (restored from the
\* alias, fresh because the alias is not found, or failed with the load
\* error and no training), and a fresh start never happens while a
\* snapshot file of the working directory exists.
C7_FreshOnlyWithoutRecord ==
    /\ (JustConstructed /\ restored) =>
          \E f \in Resolve(dirs["cwd"]) :
              step = f.data.step /\ model = f.data.model
                                 /\ optimizer = f.data.optimizer
    /\ (JustConstructed /\ ~restored) =>
          /\ step = 0
          /\ Snapshots(dirs["cwd"]) = << >>
    /\ error.kind = "load" => (pc = "exit" /\ updates = 0 /\ epoch = 0)

\* C8: a learner constructed in a working directory whose last
\* save_to_checkpoint completed has step, model parameters and optimizer
\* state equal to those of the learner that saved.
C8_RoundTrip ==
    (JustConstructed /\ last_save.done) =>
        /\ restored
        /\ step = last_save.data.step
        /\ model = last_save.data.model
        /\ optimizer = last_save.data.optimizer

\* C8 witness: a later process restored a checkpoint of a trained learner
C8_Witness ==
    /\ JustConstructed /\ last_save.done /\ restored /\ runs > 1
    /\ step > 0 /\ model # 0 /\ optimizer # 0 /\ model # optimizer

\* x is one of the passes the current epoch has started so far
Started(x) == \E k \in 1..Len(passes) : passes[k] = x

\* C9: only the master replica writes to the summary writer or to any
\* checkpoint directory; every replica, master or not, runs each epoch's
\* whole training pass and each validation pass and ends each of them with
\* the cross-replica average.
C9_MasterOnlyWrites ==
    /\ [][(pc' # "start" /\ (summary' # summary \/ dirs' # dirs))
             => is_master]_vars
    /\ [](~is_master =>
            \A k \in 1..Len(passes) : passes[k] \in {"train", "valid"})
    /\ [](pc = "log_train" =>
            /\ batch = params.train_len
            /\ Len(averages) >= 1 /\ averages[1] = "train/loss"
            /\ passes = << "train" >>)
    /\ [](pc = "log_val" =>
            /\ n = ValidLen
            /\ averages = << "valid/loss" >>
            /\ passes = << "train", "valid" >>)

\* C9 witness: a non-master replica has trained and validated an epoch and
\* has written nothing
C9_Witness ==
    /\ ~is_master /\ pc = "budget" /\ runs = 1
    /\ passes = << "train", "valid" >>
    /\ summary = 0 /\ \A p \in Pools : dirs[p] = << >>

\* the validation decision of the current epoch has been taken
ValidationDecided ==
    \/ pc \in {"ckpt_check", "min_check", "budget"}
    \/ pc \in {"save", "save_unlink", "save_symlink", "save_prune",
               "save_return"} /\ pool \in {"cwd", "min"}

\* C10: a validation pass runs in epoch e exactly when e > 0,
\* e mod val_every_n_epochs = 0 and a validation set is configured; never
\* in epoch 0; and it runs after the epoch's training pass and before the
\* epoch's periodic checkpoint.
C10_ValidationCadence ==
    /\ ValidationDecided =>
         (Started("valid") <=>
            (epoch > 0 /\ epoch % params.val_every_n_epochs = 0
                       /\ params.has_valid))
    /\ epoch = 0 => ~Started("valid")
    /\ Started("valid") =>
         /\ passes[1] = "train" /\ passes[2] = "valid"
         /\ \A k \in 1..Len(passes) :
               /\ passes[k] = "valid" => k = 2
               /\ passes[k] = "ckpt" => k > 2

\* C10 witness: with validation every 2 epochs, epoch 2 has validated and
\* then saved its periodic checkpoint
C10_Witness ==
    /\ params.val_every_n_epochs = 2 /\ epoch = 2
    /\ Started("valid") /\ Started("ckpt") /\ pc = "budget"

\* the value a is strictly lower than every value that went into best (a
\* first finite value is lower than nothing)
ImprovesOn(a, best) ==
    IF best.kind = "none" THEN a.kind = "fin" ELSE FLess(a, best)

\* C11 as stated: after every validation pass on the master a snapshot is
\* saved to the best-validation pool exactly when the pass's loss is strictly
\* lower than that of every earlier validation pass of the run, a first
\* pass counting as an improvement whatever its finite value.
C11_BestValidationSaved ==
    (is_master /\ pc = "ckpt_check" /\ Started("valid")) =>
        (Started("min_val") <=> ImprovesOn(epoch_loss_val, best_val))

\* C12 as stated: at the end of every epoch the master, and only it, has
\* saved to the general pool exactly when epoch mod summery_every_n_epochs
\* = 0, and after that to the best-training pool exactly when the epoch's
\* training loss is strictly lower than the best training loss seen so far
\* in the run; in all other epochs neither pool is written.
C12_PeriodicAndBestTraining ==
    pc = "budget" =>
        /\ Started("ckpt") <=>
              (is_master /\ epoch % params.summery_every_n_epochs = 0)
        /\ Started("min") <=>
              (Started("ckpt") /\ ImprovesOn(loss, best_train))

\* batches one epoch trains on
B == params.train_len

\* batches a run standing at the start of its first epoch still has to train
\* on until the end of the first epoch at which step >= m
BatchesToBudget(m) ==
    IF step >= m THEN B ELSE ((m - step + B - 1) \div B) * B

\* a run stands at the start of its first epoch with a budget that the
\* batches the directory is followed for cover
BudgetCovered ==
    /\ pc = "train_epoch" /\ epoch = 0 /\ batch = 0
    /\ \E m \in params.max_steps : trained + BatchesToBudget(m) <= cap

\* C13: with a step budget max_steps and B >= 1 batches per epoch, a run
\* that meets no fatal error (and is not stopped) eventually returns
\* normally; it returns only at an epoch end, at the first one at which
\* step >= max_steps (every earlier epoch ended below the budget), and if
\* it started below max_steps its final step is in [max_steps, max_steps+B).
C13_ReturnsAtFirstEpochOverBudget ==
    /\ [](\A m \in params.max_steps :
            /\ (pc \notin {"start", "exit"} /\ epoch > 0) => step - batch < m
            /\ ReturnedNormally =>
                 /\ batch = B
                 /\ step >= m
                 /\ epoch > 0 => step - B < m
                 /\ start_step < m => step < m + B)
    /\ [](ReturnedNormally => params.max_steps # {})
    /\ BudgetCovered ~>
          (ReturnedNormally \/ error.kind # "none" \/ outcome = "stopped")

\* C13 witness: a run that started below its budget returned past it
C13_Witness ==
    /\ ReturnedNormally
    /\ \E m \in params.max_steps : start_step < m /\ step > m

\* the margin m and the window length T of the batch looked at
Margin == params.mask_loss_using_overlap
WinLen == Len(l1_in[1])

\* get_loss_with_overlap_mask has returned to its caller
MaskReturned == lpc = "done" /\ Margin >= 0

\* samples of row r (counted from 0) that the mask has set to 0
Zeroed(r) == { j \in 0..WinLen - 1 : row_loss[r][j + 1] = 0 }

\* row r is zeroed on [0, max(0, overlap[r] - m)) and untouched elsewhere
ZeroedPrefix(r) ==
    /\ Zeroed(r) = 0..Max(0, overlap[r] - Margin) - 1
    /\ \A j \in 1..WinLen : row_loss[r][j] \in {0, l1_in[r][j]}

\* C14 as stated: exactly the samples [0, max(0, overlap[row] - m)) of each
\* row are zeroed, and the row's divisor T - overlap[row] + m equals the
\* number of samples of the row that were not zeroed.
C14_DivisorCountsTrained ==
    MaskReturned =>
        \A r \in 1..Len(overlap) :
            /\ ZeroedPrefix(r)
            /\ non_overlap[r] = WinLen - overlap[r] + Margin
            /\ non_overlap[r] = WinLen - Cardinality(Zeroed(r))

\* C14 amended: exactly the samples [0, max(0, overlap[row] - m)) of each
\* row are zeroed; the row's divisor T - overlap[row] + m equals the number
\* of samples not zeroed when overlap[row] >= m and exceeds it by
\* m - overlap[row] otherwise.  Scenario T=100, m=10, overlap=[50, 0]: row 0
\* is trained on [40,100) with divisor 60, row 1 on all 100 samples with
\* divisor 110.
C14_DivisorOverCountsBelowMargin ==
    /\ MaskReturned =>
         \A r \in 1..Len(overlap) :
             /\ ZeroedPrefix(r)
             /\ non_overlap[r] = WinLen - overlap[r] + Margin
             /\ non_overlap[r] = WinLen - Cardinality(Zeroed(r))
                                   + Max(0, Margin - overlap[r])
    /\ (MaskReturned /\ WinLen = 100 /\ Margin = 10 /\ overlap = << 50, 0 >>)
         => /\ Zeroed(1) = 0..39 /\ Zeroed(2) = {}
            /\ non_overlap = << 60, 110 >>

\* C14 witness: the scenario has been computed, and row 1 has a divisor
\* of 110 for its 100 samples
C14_Witness ==
    /\ MaskReturned /\ WinLen = 100 /\ overlap = << 50, 0 >>
    /\ non_overlap = << 60, 110 >> /\ Cardinality(Zeroed(2)) = 0

\* C15 as stated: with the mask enabled and overlap[row] in [0, T] the row
\* divisor T - overlap[row] + margin is never zero, and a fully overlapped
\* row with a positive margin keeps a sample and has a divisor >= 1.
C15_DivisorNeverZero ==
    MaskReturned =>
        \A r \in 1..Len(overlap) :
            /\ non_overlap[r] # 0
            /\ (overlap[r] = WinLen /\ Margin > 0) =>
                  (Cardinality(Zeroed(r)) < WinLen /\ non_overlap[r] >= 1)

\* C19 as stated: for an all-zero overlap no sample is zeroed and the result
\* is the sum of absolute errors divided by (T + margin) and by the number
\* of rows of the batch given, from train_step and from valid_loss alike;
\* with margin 0 it is the mean L1 loss of the batch.
C19_ZeroOverlapIsMeanL1 ==
    (MaskReturned /\ \A r \in 1..Len(overlap) : overlap[r] = 0) =>
        /\ row_loss = l1_in
        /\ loss_denoise.kind = "fin"
        /\ loss_denoise.num * ((WinLen + Margin) * Len(l1_in)) =
              SumAll(l1_in) * loss_denoise.den
        /\ Margin = 0 =>
              loss_denoise.num * MeanL1(l1_in).den =
                 MeanL1(l1_in).num * loss_denoise.den

\* C16 as stated: in a distributed run every replica issues the same
\* cross-replica average calls in the same order in every pass; whether a
\* replica reaches a call site does not depend on replica-local values.
C16_SameCollectiveCalls ==
    params.replica.is_distributed => averages = peer_averages

\* a fatal error was raised inside the learner in the current epoch
FatalInEpoch == error.kind \in {"nan", "assert"}

\* C17: once a fatal error (NaN loss in a training or validation step, or
\* the validation batch-count assertion) has arisen in an epoch, the files
\* and aliases of the three pools are exactly those present when the epoch
\* began, and stay so: the epoch started no save before the error and the
\* handler writes nothing.
C17_NoSaveInFailingEpoch ==
    FatalInEpoch =>
        /\ dirs = epoch_dirs
        /\ \A k \in 1..Len(passes) : passes[k] \in {"train", "valid"}

\* C17 witness: a validation pass failed after earlier epochs had saved
\* checkpoints, and the process has ended
C17_Witness ==
    /\ FatalInEpoch /\ Started("valid") /\ pc = "exit"
    /\ dirs["cwd"] # << >> /\ dirs = epoch_dirs

\* the steps of the snapshot files of pool p, as a set
SnapshotSet(d) == { d[k].id : k \in { i \in 1..Len(d) : ~d[i].link } }

\* C18: after every completed save to a pool the directory holds at most 4
\* entries counting the alias: one alias and the (up to) 3 most recently
\* written snapshot files; every older snapshot is gone; and the pruning
\* never deletes the snapshot the alias points to.
C18_RetentionBound ==
    /\ [](\A p \in Pools :
            SaveCompleted(p) =>
                /\ Len(dirs[p]) <= 4
                /\ Len(dirs[p]) = Cardinality(SnapshotSet(dirs[p])) + 1
                /\ Cardinality(SnapshotSet(dirs[p])) <= 3
                /\ \A k \in 1..Len(written[p]) :
                      written[p][k] \in SnapshotSet(dirs[p]) <=> k <= 3
                /\ Resolve(dirs[p]) # {})
    /\ [][pc = "save_prune" =>
            /\ Resolve(dirs[pool]) # {}
            /\ Resolve(dirs[pool]) = Resolve(dirs'[pool])]_vars

\* C18 witness: the fourth save to the working directory has completed and
\* has deleted the oldest snapshot
C18_Witness ==
    /\ SaveCompleted("cwd") /\ Len(written["cwd"]) = 4
    /\ Len(dirs["cwd"]) = 4
    /\ written["cwd"][4] \notin SnapshotSet(dirs["cwd"])

\* the run ended on a NaN loss of a training step
TrainNanFatal == error.kind = "nan" /\ epoch_loss = "nan"

\* C20 as stated: in every state between training steps, the fatal state
\* after a NaN training loss included, the number of optimizer updates since
\* startup equals step minus the step at startup.
C20_UpdatesEqualSteps == pc # "start" => updates = step - start_step

\* C20 amended: in every state between training steps of a run the number
\* of optimizer updates since startup equals step minus the step at
\* startup, except in the fatal state reached from a NaN training loss,
\* where the failing step has already applied its update and step was not
\* incremented (one update more); validation passes, checkpoint saves and
\* logging change neither the model, the optimizer state nor step.
C20_UpdatesFollowSteps ==
    /\ [](updates = step - start_step + (IF TrainNanFatal THEN 1 ELSE 0))
    /\ [][(trained' = trained /\ pc # "start" /\ pc' # "start") =>
            UNCHANGED << model, optimizer, step, updates >>]_vars

\* C20 witness: a restored run ended on a NaN training loss with one update
\* more than steps
C20_Witness ==
    /\ TrainNanFatal /\ pc = "exit" /\ restored /\ start_step > 0
    /\ updates = step - start_step + 1 /\ updates > 1

====
